---- MODULE Spec2Model ----
(***************************************************************************)
(* Leader/follower key-value store of Lab4/server.py: one leader that      *)
(* versions and commits client writes and pushes them to its followers,    *)
(* waiting for WRITE_QUORUM confirmations or for REPL_TIMEOUT, and nodes   *)
(* that apply a pushed update only when its version is newer.              *)
(*                                                                         *)
(* Every node runs the same program on one asyncio event loop: the code    *)
(* between two awaits of a handler is one atomic step.  set_value has no   *)
(* await before its first "await coro" (line 82), replicate has none.      *)
(***************************************************************************)
EXTENDS Integers, Sequences, FiniteSets, TLC

\* ------------------------------------------------------------ the cluster
Leader == "leader"
Followers == {"f1", "f2"}
Nodes == {Leader} \cup Followers
Keys == {"a", "b"}
Values == {"x", "y"}

\* accepted /set requests per behaviour
MaxWrites == 2
\* highest version a client-made /replicate carries
MaxVersion == 2
\* size of the set of updates a client delivers in ApplySpec
MaxUpdates == 2

\* ROLE of each process (line 18): the leader container sets ROLE=leader,
\* the others keep the default.
ROLE(n) == IF n = Leader THEN "leader" ELSE "follower"

\* FOLLOWERS as split on "," (line 20): an unset variable, a list with an
\* empty token, two endpoints.
FollowerLists == {<<>>, <<"f1", "">>, <<"f1", "f2">>}

\* WRITE_QUORUM (line 21): from "no confirmation needed" to "more than there
\* are followers".
Quorums == 0..(Cardinality(Followers) + 1)

VARIABLES
    store,      \* store[n]: the dict `store` of node n, key -> Entry
    followers,  \* FOLLOWERS of the leader process
    quorum,     \* WRITE_QUORUM of the leader process
    reqs,       \* the /set requests the leader accepted, in arrival order
    last,       \* the HTTP request handled last, its node, and its response
    updates,    \* ApplySpec: the updates a client delivers
    recvd       \* ApplySpec: recvd[n], the updates delivered to n so far

\* Lab2/server.py: the request counter and the rate limiter of the threaded
\* file server, shared by the worker threads of its pool
VARIABLES
    counts,        \* RequestCounter._counts, 0 for a key never counted
    lock,          \* RequestCounter._lock: "free" or the thread that holds it
    synchronized,  \* RequestCounter._synchronized (not --naive-counter)
    workers,       \* workers[w]: where thread w is in increment() or allow()
    returned,      \* returned[key]: the values increment(key) returned so far
    clock,         \* time.monotonic(), in ticks
    requests,      \* RateLimiter._requests, ip -> deque of timestamps
    limit,         \* RateLimiter._limit_per_window
    window,        \* RateLimiter._window_seconds, in ticks
    admitted,      \* admitted[ip][t]: requests of ip read at tick t and allowed
    denied         \* denied[ip]: requests of ip that were refused

lab2 == <<counts, lock, synchronized, workers, returned, clock, requests,
          limit, window, admitted, denied>>

lab4 == <<store, followers, quorum, reqs, last, updates, recvd>>

vars == <<store, followers, quorum, reqs, last, updates, recvd, lab2>>

\* ------------------------------------------------------------ the Store
Entry(v, ver) == [value |-> v, version |-> ver]

\* store[key] = {...}
Put(s, k, e) == [x \in DOMAIN s \cup {k} |-> IF x = k THEN e ELSE s[x]]

\* store.get(req.key, {}).get("version", 0)
CurrentVersion(s, k) == IF k \in DOMAIN s THEN s[k].version ELSE 0

EmptyStore == [x \in {} |-> Entry("x", 0)]

\* ------------------------------------------------------------ /replicate
\* line 98 gone wrong, for comparison: without the version check, and with
\* >= for >
NewerUnchecked(s, k, ver) == TRUE

NewerOrEqual(s, k, ver) == k \notin DOMAIN s \/ ver >= s[k].version

\* the condition of line 98
Newer(s, k, ver) == k \notin DOMAIN s \/ ver > s[k].version

\* lines 98-100 gone wrong, for comparison: the update is acknowledged and
\* not stored
ReplicateDrops(s, k, v, ver) == s

ReplicateStore(s, k, v, ver) ==
    IF Newer(s, k, ver) THEN Put(s, k, Entry(v, ver)) ELSE s

ReplicateResp(s, k, ver) ==
    IF Newer(s, k, ver)
    THEN [status |-> 200, ok |-> TRUE, applied |-> TRUE]
    ELSE [status |-> 200, ok |-> TRUE, applied |-> FALSE,
          reason |-> "stale_version"]

ReplicateReq(k, v, ver) ==
    [op |-> "replicate", key |-> k, value |-> v, version |-> ver]

SetReq(k, v) == [op |-> "set", key |-> k, value |-> v, version |-> 0]

NoReq == [op |-> "none", key |-> "a", value |-> "x", version |-> 0]

\* node n handles POST /replicate {key, value, version}
HandleReplicate(n, k, v, ver) ==
    store' = [store EXCEPT ![n] = ReplicateStore(@, k, v, ver)]

\* ------------------------------------------------------------ /set
\* the tasks of lines 64-74: one per non-empty token of FOLLOWERS
Targets == SelectSeq(followers, LAMBDA f : f # "")

NoResp == [status |-> 0]

\* line 90 gone wrong, for comparison: > for >=
SuccessAbove(confirmations) == confirmations > quorum

\* line 90
Success(confirmations) == confirmations >= quorum

\* line 91
SetResp(confirmations, ver) ==
    [status |-> 200, ok |-> Success(confirmations),
     confirmations |-> confirmations, required |-> quorum, version |-> ver]

\* line 53 gone wrong, for comparison: no role check
AnyRole(n) == TRUE

\* line 53
IsLeader(n) == ROLE(n) = "leader"

\* line 54
Forbidden == [status |-> 403, detail |-> "Only leader accepts writes"]

\* lines 57-58 gone wrong, for comparison: the version is not incremented
SameVersion(s, k) == CurrentVersion(s, k)

\* lines 57-58
NewVersion(s, k) == CurrentVersion(s, k) + 1

\* line 61 gone wrong, for comparison: the leader does not write locally
CommitNothing(s, k, v, new) == s

\* line 61 gone wrong, for comparison: the version is stored and the value
\* of an Entry already there is kept
CommitTorn(s, k, v, new) ==
    Put(s, k, Entry(IF k \in DOMAIN s THEN s[k].value ELSE v, new))

\* line 61
Commit(s, k, v, new) == Put(s, k, Entry(v, new))

Waiting == {r \in 1..Len(reqs) : reqs[r].status = "waiting"}

\* set_value up to its first await: the role check, the local commit, the
\* creation of the push tasks; with no task the response follows at once.
\* A request records its push tasks, the as_completed queue (doneQ,
\* timedOut), the loop's iteration and count, and once answered the response
\* and the tasks that had not reached their follower by then (unsent).
SetValue(n, k, v) ==
    IF ~IsLeader(n)
    THEN UNCHANGED <<store, followers, quorum, reqs, updates, recvd, lab2>>
    ELSE LET new == NewVersion(store[n], k)
             none == Targets = <<>>
         IN /\ Len(reqs) < MaxWrites
            /\ store' = [store EXCEPT ![n] = Commit(@, k, v, new)]
            /\ reqs' = Append(reqs,
                   [key |-> k, value |-> v, version |-> new,
                    target |-> Targets,
                    task |-> [i \in 1..Len(Targets) |-> "pending"],
                    doneQ |-> <<>>, iter |-> 0, confirmations |-> 0,
                    timedOut |-> FALSE, unsent |-> {},
                    status |-> IF none THEN "responded" ELSE "waiting",
                    resp |-> IF none THEN SetResp(0, new) ELSE NoResp])
            /\ UNCHANGED <<followers, quorum, updates, recvd, lab2>>

\* ------------------------------------------------------------ push tasks
\* A task is "pending" (sleeping, or its request not yet at the follower),
\* "delivered" (the follower handled it, the response is on its way), and
\* ends "ok" (status 200 seen, True), "lost" (an exception before the
\* follower got it, False) or "late" (an exception after, False).
Unfinished == {"pending", "delivered"}

Reached == {"delivered", "ok", "late"}

\* line 45 gone wrong, for comparison: a response counts only when it says
\* applied = true
CompletedIfApplied(q, res) ==
    [q EXCEPT !.doneQ =
        IF q.timedOut \/ q.status # "waiting"
        THEN @
        ELSE Append(@, res /\ (last.req.op = "replicate" => last.resp.applied))]

\* line 80 gone wrong, for comparison: the tasks are awaited one after the
\* other in the order of FOLLOWERS (`for t in tasks: await t`), so a result
\* is at hand only when every task before it has finished
Finished(q) ==
    {m \in 0..Len(q.target) : \A j \in 1..m : q.task[j] \notin {"pending", "delivered"}}

CompletedInOrder(q, res) ==
    [q EXCEPT !.doneQ =
        IF q.timedOut \/ q.status # "waiting"
        THEN @
        ELSE LET m == CHOOSE x \in Finished(q) : \A y \in Finished(q) : y <= x
             IN [j \in 1..(m - q.iter) |-> q.task[j + q.iter] = "ok"]]

\* as_completed's _on_completion: the finished task is queued unless
\* _on_timeout emptied todo first.  The handler reads nothing of a queued
\* task but its result, so the queue holds the results.
Completed(q, res) ==
    [q EXCEPT !.doneQ = IF q.timedOut \/ q.status # "waiting"
                        THEN @ ELSE Append(@, res)]

\* line 44: the request reaches the follower, which handles it.
Deliver(r, i) ==
    /\ r \in 1..Len(reqs)
    /\ i \in 1..Len(reqs[r].target)
    /\ reqs[r].task[i] = "pending"
    /\ HandleReplicate(reqs[r].target[i], reqs[r].key, reqs[r].value,
                       reqs[r].version)
    /\ reqs' = [reqs EXCEPT ![r].task[i] = "delivered"]
    /\ UNCHANGED <<followers, quorum, last, updates, recvd, lab2>>

\* line 45: the 200 response arrives, the task returns True.
PushOk(r, i) ==
    /\ r \in 1..Len(reqs)
    /\ i \in 1..Len(reqs[r].target)
    /\ reqs[r].task[i] = "delivered"
    /\ reqs' = [reqs EXCEPT ![r] = Completed([@ EXCEPT !.task[i] = "ok"], TRUE)]
    /\ UNCHANGED <<store, followers, quorum, last, updates, recvd, lab2>>

\* lines 46-47: the follower cannot be reached (connection refused, connect
\* timeout); the task returns False and the follower never sees the request.
PushLost(r, i) ==
    /\ r \in 1..Len(reqs)
    /\ i \in 1..Len(reqs[r].target)
    /\ reqs[r].task[i] = "pending"
    /\ reqs' = [reqs EXCEPT ![r] = Completed([@ EXCEPT !.task[i] = "lost"], FALSE)]
    /\ UNCHANGED <<store, followers, quorum, last, updates, recvd, lab2>>

\* lines 46-47: the follower handled the request but its response does not
\* arrive (read timeout, connection reset); the task returns False.
PushLate(r, i) ==
    /\ r \in 1..Len(reqs)
    /\ i \in 1..Len(reqs[r].target)
    /\ reqs[r].task[i] = "delivered"
    /\ reqs' = [reqs EXCEPT ![r] = Completed([@ EXCEPT !.task[i] = "late"], FALSE)]
    /\ UNCHANGED <<store, followers, quorum, last, updates, recvd, lab2>>

\* line 80 gone wrong, for comparison: no timeout is passed to as_completed,
\* so nothing is queued when REPL_TIMEOUT elapses
NoDummies(n) == <<>>

\* as_completed's _on_timeout (line 80): REPL_TIMEOUT elapsed with tasks
\* still in todo; one dummy is queued per such task and todo is emptied.
\* Awaiting a dummy raises TimeoutError, which line 84 turns into False.
Todo(q) == {i \in 1..Len(q.target) : q.task[i] \in Unfinished}

RECURSIVE Dummies(_)
Dummies(n) == IF n = 0 THEN <<>> ELSE Append(Dummies(n - 1), FALSE)

Timeout(r) ==
    /\ r \in Waiting
    /\ ~reqs[r].timedOut
    /\ Todo(reqs[r]) # {}
    /\ reqs' = [reqs EXCEPT ![r].timedOut = TRUE,
                            ![r].doneQ = @ \o Dummies(Cardinality(Todo(reqs[r])))]
    /\ UNCHANGED <<store, followers, quorum, last, updates, recvd, lab2>>

\* lines 85-86 gone wrong, for comparison: every finished task counts
CountAll(c, res) == c + 1

\* lines 85-86
Count(c, res) == IF res THEN c + 1 ELSE c

\* lines 87-88 gone wrong, for comparison: no early exit from the loop
QuorumNever(c) == FALSE

\* line 87
QuorumMet(c) == c >= quorum

\* lines 87-88 gone wrong, for comparison: the tasks not yet sent are
\* cancelled when the handler returns
CancelUnsent(t) == [i \in DOMAIN t |-> IF t[i] = "pending" THEN "lost" ELSE t[i]]

\* lines 87-91: the handler returns and leaves its tasks as they are
Outstanding(t) == t

\* lines 80-91: "await coro" returns the next queued result (a dummy raises
\* TimeoutError, counted as False); the loop breaks at quorum or ends after
\* one iteration per task, and the response is built.  The queue is local
\* to the generator and is dropped with it when the handler returns.
Await(r) ==
    /\ r \in Waiting
    /\ reqs[r].doneQ # <<>>
    /\ LET q == reqs[r]
           c == Count(q.confirmations, Head(q.doneQ))
           it == q.iter + 1
           over == QuorumMet(c) \/ it = Len(q.target)
       IN reqs' = [reqs EXCEPT ![r] =
              IF over
              THEN [q EXCEPT !.doneQ = <<>>, !.iter = it, !.confirmations = c,
                             !.status = "responded",
                             !.resp = SetResp(c, q.version),
                             !.task = Outstanding(@),
                             !.unsent = {i \in DOMAIN q.task : q.task[i] = "pending"}]
              ELSE [q EXCEPT !.doneQ = Tail(@), !.iter = it, !.confirmations = c]]
    /\ UNCHANGED <<store, followers, quorum, last, updates, recvd, lab2>>

\* ------------------------------------------------------------ clients
Versions == 0..MaxVersion

Updates == {ReplicateReq(k, v, ver) : k \in Keys, v \in Values, ver \in Versions}

Flip(b) == 1 - b

\* What a client sees of the request it made: the node, the request and the
\* response; again says that the request before it was the same request to
\* the same node, and seq alternates with every request.
Observed(n, rq, rsp) ==
    [node |-> n, req |-> rq, resp |-> rsp,
     again |-> (last.node = n /\ last.req = rq), seq |-> Flip(last.seq)]

NoneObserved ==
    [node |-> Leader, req |-> NoReq, resp |-> NoResp, again |-> FALSE, seq |-> 0]

\* A client of the cluster writes through the leader.  The code never looks
\* into a key or a value, so the first write is to key "a" with value "x":
\* any other first write is this one with the keys and values renamed.
ClusterSet(k, v) ==
    /\ reqs = <<>> => k = "a" /\ v = "x"
    /\ SetValue(Leader, k, v)
    /\ UNCHANGED last

\* A client posts /set {key, value} to node n and reads the response, if one
\* comes before any push task finishes.
ClientSet(n, k, v) ==
    /\ SetValue(n, k, v)
    /\ last' = Observed(n, SetReq(k, v),
                        IF ~IsLeader(n) THEN Forbidden
                        ELSE IF Targets = <<>>
                             THEN SetResp(0, NewVersion(store[n], k))
                             ELSE NoResp)

\* A client posts /replicate {key, value, version} to node n itself.
PostReplicate(n, k, v, ver) ==
    /\ HandleReplicate(n, k, v, ver)
    /\ last' = Observed(n, ReplicateReq(k, v, ver), ReplicateResp(store[n], k, ver))
    /\ UNCHANGED <<followers, quorum, reqs, updates, recvd, lab2>>

\* The same, by the client that keeps track of what it delivered.
ClientReplicate(n, k, v, ver) ==
    /\ HandleReplicate(n, k, v, ver)
    /\ last' = Observed(n, ReplicateReq(k, v, ver), ReplicateResp(store[n], k, ver))
    /\ recvd' = [recvd EXCEPT ![n] = @ \cup {ReplicateReq(k, v, ver)}]
    /\ UNCHANGED <<followers, quorum, reqs, updates, lab2>>

\* ------------------------------------------------------------ reads
\* lines 106-111
GetResp(s, k) ==
    IF k \in DOMAIN s
    THEN [status |-> 200, key |-> k, value |-> s[k].value, version |-> s[k].version]
    ELSE [status |-> 404, detail |-> "Not found"]

\* lines 114-116
DumpResp(s) == [status |-> 200, store |-> s]

GetReq(k) == [op |-> "get", key |-> k, value |-> "x", version |-> 0]

DumpReq == [op |-> "dump", key |-> "a", value |-> "x", version |-> 0]

\* line 82 gone wrong, for comparison: the handler of /set keeps the event
\* loop while it waits (a blocking wait for `await`), so no other request is
\* served meanwhile
ReadBlocked(n) == n # Leader \/ Waiting = {}

\* A node serves a request when its event loop is free.  A /set that waits
\* is suspended at `await coro` (line 82), which gives the loop back, and
\* every other stretch of a handler is one step: the loop is always free
\* between steps.
ReadReady(n) == TRUE

\* GET /get/{key} on node n
ClientGet(n, k) ==
    /\ ReadReady(n)
    /\ last' = Observed(n, GetReq(k), GetResp(store[n], k))
    /\ UNCHANGED <<store, followers, quorum, reqs, updates, recvd, lab2>>

\* GET /dump on node n
ClientDump(n) ==
    /\ ReadReady(n)
    /\ last' = Observed(n, DumpReq, DumpResp(store[n]))
    /\ UNCHANGED <<store, followers, quorum, reqs, updates, recvd, lab2>>

\* Deliver, with the follower's response as it goes back to the leader
\* (lines 44 and 97-103): the request of a push task, the follower that
\* handled it, and what it answered.
PushSeen(r, i) ==
    /\ r \in 1..Len(reqs)
    /\ i \in 1..Len(reqs[r].target)
    /\ reqs[r].task[i] = "pending"
    /\ HandleReplicate(reqs[r].target[i], reqs[r].key, reqs[r].value,
                       reqs[r].version)
    /\ reqs' = [reqs EXCEPT ![r].task[i] = "delivered"]
    /\ last' = Observed(reqs[r].target[i],
                        ReplicateReq(reqs[r].key, reqs[r].value, reqs[r].version),
                        ReplicateResp(store[reqs[r].target[i]], reqs[r].key,
                                      reqs[r].version))
    /\ UNCHANGED <<followers, quorum, updates, recvd, lab2>>

\* ------------------------------------------------------------ Lab2: the file server
\* worker threads of the ThreadPoolExecutor (Lab2/server.py, line 154)
Workers == {"w1", "w2", "w3"}

\* counter keys (one per path served) and client addresses
Paths == {"/", "/a"}

IPs == {"ip1", "ip2"}

\* calls of increment() per behaviour
MaxCalls == 3
\* calls of allow() per behaviour
MaxAllows == 4
\* the last tick of the clock
MaxClock == 3

\* --rate-limit and --rate-window (lines 53-64): off, and small limits and
\* windows in ticks
Limits == 0..2

Windows == {1, 2}

Idle == [pc |-> "idle", key |-> "/", current |-> 0, ip |-> "ip1", now |-> 0]

Busy == {w \in Workers : workers[w].pc # "idle"}

RECURSIVE SumOver(_, _)
SumOver(f, S) ==
    IF S = {} THEN 0
    ELSE LET x == CHOOSE y \in S : TRUE IN f[x] + SumOver(f, S \ {x})

\* The server at rest with an unused counter and limiter; the state of
\* Lab2 wherever Lab4 alone is looked at.
Lab2Idle ==
    /\ counts = [k \in Paths |-> 0]
    /\ lock = "free"
    /\ synchronized = TRUE
    /\ workers = [w \in Workers |-> Idle]
    /\ returned = [k \in Paths |-> <<>>]
    /\ clock = 0
    /\ requests = [ip \in IPs |-> <<>>]
    /\ limit = 0
    /\ window = 1
    /\ admitted = [ip \in IPs |-> [t \in 0..MaxClock |-> 0]]
    /\ denied = [ip \in IPs |-> 0]

\* Lab4 at rest, wherever Lab2 alone is looked at.
Lab4Idle ==
    /\ store = [n \in Nodes |-> EmptyStore]
    /\ followers = <<>>
    /\ quorum = 1
    /\ reqs = <<>>
    /\ last = NoneObserved
    /\ updates = {}
    /\ recvd = [n \in Nodes |-> {}]

\* ---- RequestCounter.increment (lines 75-87)
\* line 77 gone wrong, for comparison: the lock is not waited for
LockIgnored(l) == TRUE

\* line 77: `with self._lock` goes on when the lock is free
LockFree(l) == l = "free"

\* line 85 gone wrong, for comparison: the new value is computed from the
\* count as it is when it is written
NewValueFresh(current, stored) == stored + 1

\* lines 78 and 85: one more than the count that was read
NewValue(current, stored) == current + 1

Limiter == <<clock, requests, limit, window, admitted, denied>>

\* a worker thread calls increment(key)
CallIncrement(w, k) ==
    /\ workers[w].pc = "idle"
    /\ SumOver([p \in Paths |-> Len(returned[p])], Paths) + Cardinality(Busy) < MaxCalls
    /\ workers' = [workers EXCEPT ![w] = [Idle EXCEPT !.pc = "enter", !.key = k]]
    /\ UNCHANGED <<counts, lock, synchronized, returned, Limiter, lab4>>

\* lines 76-77 and 81: with synchronization the thread takes the lock, and
\* waits while another thread holds it; the naive counter goes straight on
Enter(w) ==
    /\ workers[w].pc = "enter"
    /\ synchronized => LockFree(lock)
    /\ lock' = IF synchronized THEN w ELSE lock
    /\ workers' = [workers EXCEPT ![w].pc = "read"]
    /\ UNCHANGED <<counts, synchronized, returned, Limiter, lab4>>

\* line 78 (the read of `+= 1`) and line 82: the count is read
Read(w) ==
    /\ workers[w].pc = "read"
    /\ workers' = [workers EXCEPT ![w].pc = "write",
                                  ![w].current = counts[workers[w].key]]
    /\ UNCHANGED <<counts, lock, synchronized, returned, Limiter, lab4>>

\* lines 78-79 and 85-87: the new value is stored and returned, and the
\* lock, if taken, is released
Write(w) ==
    /\ workers[w].pc = "write"
    /\ LET k == workers[w].key
           new == NewValue(workers[w].current, counts[k])
       IN /\ counts' = [counts EXCEPT ![k] = new]
          /\ returned' = [returned EXCEPT ![k] = Append(@, new)]
    /\ lock' = IF synchronized THEN "free" ELSE lock
    /\ workers' = [workers EXCEPT ![w] = Idle]
    /\ UNCHANGED <<synchronized, Limiter, lab4>>

CounterInit ==
    /\ Lab4Idle
    /\ Lab2Idle
    /\ synchronized = TRUE

NaiveInit ==
    /\ Lab4Idle
    /\ counts = [k \in Paths |-> 0]
    /\ lock = "free"
    /\ synchronized = FALSE
    /\ workers = [w \in Workers |-> Idle]
    /\ returned = [k \in Paths |-> <<>>]
    /\ clock = 0
    /\ requests = [ip \in IPs |-> <<>>]
    /\ limit = 0
    /\ window = 1
    /\ admitted = [ip \in IPs |-> [t \in 0..MaxClock |-> 0]]
    /\ denied = [ip \in IPs |-> 0]

CounterNext ==
    \/ \E w \in Workers, k \in Paths : CallIncrement(w, k)
    \/ \E w \in Workers : Enter(w)
    \/ \E w \in Workers : Read(w)
    \/ \E w \in Workers : Write(w)

\* the synchronized counter (the default)
CounterSpec == CounterInit /\ [][CounterNext]_vars

\* the counter under --naive-counter
NaiveSpec == NaiveInit /\ [][CounterNext]_vars

\* ---- RateLimiter.allow (lines 109-123)
Counter == <<counts, lock, synchronized, returned>>

Calls == SumOver([ip \in IPs |-> SumOver(admitted[ip], 0..MaxClock) + denied[ip]], IPs)

\* lines 117-118: timestamps are dropped from the left while the leftmost
\* is not after the cutoff
RECURSIVE Prune(_, _)
Prune(ts, cutoff) ==
    IF ts # <<>> /\ Head(ts) <= cutoff THEN Prune(Tail(ts), cutoff) ELSE ts

\* line 119
AtLimit(n) == n >= limit

Admit(ip, t) == [admitted EXCEPT ![ip][t] = @ + 1]

\* A worker thread calls allow(ip).  With the limiter off (lines 110-111)
\* the request is allowed at once and nothing is recorded; otherwise the
\* thread reads the clock (line 113) and goes for the lock.
CallAllow(w, ip) ==
    /\ workers[w].pc = "idle"
    /\ Calls + Cardinality(Busy) < MaxAllows
    /\ IF limit <= 0
       THEN /\ admitted' = Admit(ip, clock)
            /\ UNCHANGED workers
       ELSE /\ workers' = [workers EXCEPT ![w] =
                              [Idle EXCEPT !.pc = "lock", !.ip = ip, !.now = clock]]
            /\ UNCHANGED admitted
    /\ UNCHANGED <<clock, requests, limit, window, denied, Counter, lab4>>

\* lines 114-123, the stretch under the lock: nothing but this stretch
\* touches _requests, so it is one step.  The timestamps that left the
\* window of the thread's `now` are dropped, and the request is refused
\* when limit or more remain, recorded and allowed otherwise.
Decide(w) ==
    /\ workers[w].pc = "lock"
    /\ LET ip == workers[w].ip
           now == workers[w].now
           kept == Prune(requests[ip], now - window)
       IN IF AtLimit(Len(kept))
          THEN /\ requests' = [requests EXCEPT ![ip] = kept]
               /\ denied' = [denied EXCEPT ![ip] = @ + 1]
               /\ UNCHANGED admitted
          ELSE /\ requests' = [requests EXCEPT ![ip] = Append(kept, now)]
               /\ admitted' = Admit(ip, now)
               /\ UNCHANGED denied
    /\ workers' = [workers EXCEPT ![w] = Idle]
    /\ UNCHANGED <<clock, limit, window, Counter, lab4>>

\* time.monotonic() moves on
Tick ==
    /\ clock < MaxClock
    /\ clock' = clock + 1
    /\ UNCHANGED <<requests, limit, window, admitted, denied, workers, Counter, lab4>>

LimiterInit ==
    /\ Lab4Idle
    /\ counts = [k \in Paths |-> 0]
    /\ lock = "free"
    /\ synchronized = TRUE
    /\ workers = [w \in Workers |-> Idle]
    /\ returned = [k \in Paths |-> <<>>]
    /\ clock = 0
    /\ requests = [ip \in IPs |-> <<>>]
    /\ limit \in Limits
    /\ window \in Windows
    /\ admitted = [ip \in IPs |-> [t \in 0..MaxClock |-> 0]]
    /\ denied = [ip \in IPs |-> 0]

LimiterNext ==
    \/ \E w \in Workers, ip \in IPs : CallAllow(w, ip)
    \/ \E w \in Workers : Decide(w)
    \/ Tick

LimiterSpec == LimiterInit /\ [][LimiterNext]_vars

\* ------------------------------------------------------------ the cluster
Init ==
    /\ store = [n \in Nodes |-> EmptyStore]
    /\ followers \in FollowerLists
    /\ quorum \in Quorums
    /\ reqs = <<>>
    /\ last = NoneObserved
    /\ updates = {}
    /\ recvd = [n \in Nodes |-> {}]
    /\ Lab2Idle

Next ==
    \/ \E k \in Keys, v \in Values : ClusterSet(k, v)
    \/ \E r \in 1..MaxWrites, i \in 1..2 : Deliver(r, i)
    \/ \E r \in 1..MaxWrites, i \in 1..2 : PushOk(r, i)
    \/ \E r \in 1..MaxWrites, i \in 1..2 : PushLost(r, i)
    \/ \E r \in 1..MaxWrites, i \in 1..2 : PushLate(r, i)
    \/ \E r \in 1..MaxWrites : Timeout(r)
    \/ \E r \in 1..MaxWrites : Await(r)

Spec == Init /\ [][Next]_vars

\* Strictly sequential clients: a /set is sent only when every earlier /set
\* has been answered.
SeqSet(k, v) == Waiting = {} /\ ClusterSet(k, v)

SeqNext ==
    \/ \E k \in Keys, v \in Values : SeqSet(k, v)
    \/ \E r \in 1..MaxWrites, i \in 1..2 : Deliver(r, i)
    \/ \E r \in 1..MaxWrites, i \in 1..2 : PushOk(r, i)
    \/ \E r \in 1..MaxWrites, i \in 1..2 : PushLost(r, i)
    \/ \E r \in 1..MaxWrites, i \in 1..2 : PushLate(r, i)
    \/ \E r \in 1..MaxWrites : Timeout(r)
    \/ \E r \in 1..MaxWrites : Await(r)

SeqSpec == Init /\ [][SeqNext]_vars

\* Reachable followers and fairly scheduled tasks: no push fails before it
\* reaches its follower, and a push that can be sent is sent.
FairInit == Init /\ Len(Targets) = 2

FairNext ==
    \/ \E k \in Keys, v \in Values : ClusterSet(k, v)
    \/ \E r \in 1..MaxWrites, i \in 1..2 : Deliver(r, i)
    \/ \E r \in 1..MaxWrites, i \in 1..2 : PushOk(r, i)
    \/ \E r \in 1..MaxWrites, i \in 1..2 : PushLate(r, i)
    \/ \E r \in 1..MaxWrites : Timeout(r)
    \/ \E r \in 1..MaxWrites : Await(r)

FairSpec ==
    /\ FairInit
    /\ [][FairNext]_vars
    /\ \A r \in 1..MaxWrites, i \in 1..2 : WF_vars(Deliver(r, i))

\* The timer of as_completed and the event loop do their part: a timeout
\* that is due fires and a handler whose awaited result is queued resumes.
\* Nothing is assumed of the network or of the followers.  The handler's
\* wait does not depend on the key, so the clients write to one key.
TimerSet(v) == ClusterSet("a", v)

TimerNext ==
    \/ \E v \in Values : TimerSet(v)
    \/ \E r \in 1..MaxWrites, i \in 1..2 : Deliver(r, i)
    \/ \E r \in 1..MaxWrites, i \in 1..2 : PushOk(r, i)
    \/ \E r \in 1..MaxWrites, i \in 1..2 : PushLost(r, i)
    \/ \E r \in 1..MaxWrites, i \in 1..2 : PushLate(r, i)
    \/ \E r \in 1..MaxWrites : Timeout(r)
    \/ \E r \in 1..MaxWrites : Await(r)

TimerSpec ==
    /\ FairInit
    /\ [][TimerNext]_vars
    /\ \A r \in 1..MaxWrites : WF_vars(Timeout(r)) /\ WF_vars(Await(r))

\* ------------------------------------------------------------ the cluster, watched
\* The cluster with clients that read from its nodes while writes are in
\* progress, and with the responses of the followers to the pushes in view.
ObsInit == Init /\ followers = <<"f1", "">> /\ quorum \in {1, 2}

ObsNext ==
    \/ \E k \in Keys, v \in Values : ClusterSet(k, v)
    \/ \E r \in 1..MaxWrites, i \in 1..2 : PushSeen(r, i)
    \/ \E r \in 1..MaxWrites, i \in 1..2 : PushOk(r, i)
    \/ \E r \in 1..MaxWrites, i \in 1..2 : PushLost(r, i)
    \/ \E r \in 1..MaxWrites, i \in 1..2 : PushLate(r, i)
    \/ \E r \in 1..MaxWrites : Timeout(r)
    \/ \E r \in 1..MaxWrites : Await(r)
    \/ \E n \in Nodes, k \in Keys : ClientGet(n, k)
    \/ \E n \in Nodes : ClientDump(n)

ObsSpec == ObsInit /\ [][ObsNext]_vars

\* ------------------------------------------------------------ one node
\* Any one node, leader or follower, and clients that post to it /set and
\* /replicate requests of their own making, while no push of the leader gets
\* through: with no push delivered the nodes do not act on each other, so
\* what one node does is seen by following that node alone.
NodeInit == Init /\ followers = <<"f1", "f2">> /\ quorum = 1

TheNode(n) == last.req.op = "none" \/ last.node = n

NodeNext ==
    \/ \E n \in Nodes, k \in Keys, v \in Values : TheNode(n) /\ ClientSet(n, k, v)
    \/ \E n \in Nodes, u \in Updates :
          TheNode(n) /\ PostReplicate(n, u.key, u.value, u.version)

NodeSpec == NodeInit /\ [][NodeNext]_vars

\* ------------------------------------------------------------ the apply handler
\* Fresh followers and a client that delivers the updates of a set it chose,
\* each to any follower, in any order and as often as it likes.
UpdateSets == {S \in SUBSET Updates : S # {} /\ Cardinality(S) <= MaxUpdates}

ApplyInit ==
    /\ store = [n \in Nodes |-> EmptyStore]
    /\ followers = <<>>
    /\ quorum = 1
    /\ reqs = <<>>
    /\ last = NoneObserved
    /\ updates \in UpdateSets
    /\ recvd = [n \in Nodes |-> {}]
    /\ Lab2Idle

ApplyNext ==
    \E n \in Followers, u \in updates : ClientReplicate(n, u.key, u.value, u.version)

ApplySpec == ApplyInit /\ [][ApplyNext]_vars

\* ------------------------------------------------------------ properties
\* request r is answered in this step
Answered(r) ==
    /\ r \in 1..Len(reqs')
    /\ reqs'[r].status = "responded"
    /\ (r > Len(reqs) \/ reqs[r].status = "waiting")

\* request r is accepted in this step
Accepted(r) == r = Len(reqs) + 1 /\ Len(reqs') = r

OkCount(q) == Cardinality({i \in 1..Len(q.target) : q.task[i] = "ok"})

\* C1: on every node and for every key, a step leaves the Entry as it is or
\* replaces it by one of a strictly greater version; an Entry never goes away.
C1_VersionMonotone ==
    [][\A n \in Nodes, k \in Keys :
          k \in DOMAIN store[n] =>
              /\ k \in DOMAIN store'[n]
              /\ \/ store'[n][k] = store[n][k]
                 \/ store'[n][k].version > store[n][k].version]_vars

\* the leader, which has accepted a /set, rejects a /replicate of a lower
\* version for that key
C1_Witness ==
    /\ last.node = Leader /\ last.req.op = "replicate"
    /\ reqs # <<>>
    /\ last.req.key \in DOMAIN store[Leader]
    /\ store[Leader][last.req.key].version > last.req.version
    /\ store[Leader][last.req.key].version > 1

Stale == [status |-> 200, ok |-> TRUE, applied |-> FALSE, reason |-> "stale_version"]

Max(S) == CHOOSE x \in S : \A y \in S : y <= x

SameKey == \A u, w \in updates : u.key = w.key

Highest == Max({u.version : u \in updates})

\* the updates that carry the highest version all carry the same value
TopAgree == \A u, w \in updates : u.version = Highest /\ w.version = Highest => u.value = w.value

GotAll(n) == recvd[n] = updates

\* C4 as stated: two fresh followers that were delivered the same set of
\* updates to one key, each in its own order and with its own re-deliveries,
\* store the highest version delivered and the same Entry.
C4_OrderIndependentAnySet ==
    \A n1, n2 \in Followers :
        SameKey /\ GotAll(n1) /\ GotAll(n2) =>
            /\ \A k \in DOMAIN store[n1] : store[n1][k].version = Highest
            /\ store[n1] = store[n2]

\* C4 amended: the stored version is the highest version delivered whatever
\* the order, and the Entry is the same for all orders when the updates that
\* carry the highest version agree on the value.
C4_OrderIndependent ==
    \A n1, n2 \in Followers :
        SameKey /\ GotAll(n1) /\ GotAll(n2) =>
            /\ DOMAIN store[n1] = {u.key : u \in updates}
            /\ \A k \in DOMAIN store[n1] : store[n1][k].version = Highest
            /\ TopAgree => store[n1] = store[n2]

\* both followers have every update of a set of several versions, and the
\* delivery made last was rejected as stale
C4_Witness ==
    /\ SameKey /\ TopAgree
    /\ \A n \in Followers : GotAll(n)
    /\ \E u, w \in updates : u.version < w.version
    /\ last.req.op = "replicate" /\ last.req.version < Highest
    /\ last.resp = Stale

\* C2: after strictly sequential writes, once every push of every write has
\* reached its follower, the leader and every configured follower store, for
\* each key written, the value of its last write with the number of writes
\* to it as the version.
WritesTo(k) == {r \in 1..Len(reqs) : reqs[r].key = k}

Settled ==
    \A r \in 1..Len(reqs) : \A i \in 1..Len(reqs[r].target) : reqs[r].task[i] \in Reached

Cluster == {Leader} \cup {Targets[i] : i \in 1..Len(Targets)}

C2_SequentialWritesConverge ==
    Settled =>
        \A k \in Keys : WritesTo(k) # {} =>
            \A n \in Cluster :
                /\ k \in DOMAIN store[n]
                /\ store[n][k] = Entry(reqs[Max(WritesTo(k))].value,
                                       Cardinality(WritesTo(k)))

\* two writes of different values to one key, two followers, the first write
\* answered while one of its pushes had not been sent
C2_Witness ==
    /\ Settled
    /\ Len(reqs) = 2 /\ reqs[1].key = reqs[2].key /\ reqs[1].value # reqs[2].value
    /\ Len(Targets) = 2 /\ quorum = 1
    /\ reqs[1].unsent # {}
    /\ \A r \in 1..2 : reqs[r].status = "responded"

\* C3: when a /set is answered ok = true, at least quorum of its push tasks
\* have seen a 200 from their follower.  (The step that answers leaves the
\* tasks as they are: what it finds was there before the response.)
C3_QuorumConfirmed ==
    [][\A r \in 1..MaxWrites :
          Answered(r) /\ reqs'[r].resp.ok => OkCount(reqs'[r]) >= quorum]_vars

\* ok = true with one push failed and the other confirmed
C3_Witness ==
    \E r \in 1..Len(reqs) :
        /\ reqs[r].status = "responded" /\ reqs[r].resp.ok
        /\ quorum = 1 /\ Len(reqs[r].target) = 2
        /\ \E i \in 1..2 : reqs[r].task[i] = "lost"
        /\ OkCount(reqs[r]) = 1

\* C5: a /replicate that repeats the request the node handled just before
\* leaves every store as it was and is answered applied = false.
C5_Idempotent ==
    [][(last'.seq # last.seq /\ last'.req.op = "replicate" /\ last'.again)
          => (store' = store /\ last'.resp.applied = FALSE)]_vars

C5_Witness ==
    /\ last.req.op = "replicate" /\ last.again
    /\ last.resp.applied = FALSE
    /\ store[last.node][last.req.key] = Entry(last.req.value, last.req.version)

\* C6: a /replicate whose version is not above the stored one changes no
\* store and is answered 200 {ok: true, applied: false, stale_version}.
C6_StaleIsNoop ==
    [][(/\ last'.seq # last.seq /\ last'.req.op = "replicate"
        /\ last'.req.key \in DOMAIN store[last'.node]
        /\ last'.req.version <= store[last'.node][last'.req.key].version)
          => (store' = store /\ last'.resp = Stale)]_vars

\* a lower version arrived after a higher one was stored, next to another key
C6_Witness ==
    /\ last.req.op = "replicate" /\ last.resp = Stale
    /\ last.req.key \in DOMAIN store[last.node]
    /\ last.req.version < store[last.node][last.req.key].version
    /\ DOMAIN store[last.node] = Keys

\* C7: a /set to a node that is not the leader is answered 403 and changes
\* no store, accepts no write (no version assigned) and creates no push task.
C7_FollowerRejectsSet ==
    [][(last'.seq # last.seq /\ last'.req.op = "set" /\ ROLE(last'.node) # "leader")
          => (last'.resp = Forbidden /\ store' = store /\ reqs' = reqs)]_vars

\* a follower that stores an Entry rejected a /set
C7_Witness ==
    /\ last.req.op = "set" /\ ROLE(last.node) = "follower"
    /\ last.resp = Forbidden
    /\ store[last.node] # EmptyStore
    /\ reqs = <<>>

\* C8: an accepted /set is given the stored version (0 if the key is absent)
\* plus one, and its response carries that version, required = quorum, the
\* confirmations counted, and ok = (confirmations >= quorum).
C8_VersionAndResponse ==
    [][\A r \in 1..MaxWrites :
          /\ Accepted(r) =>
                reqs'[r].version =
                    (IF reqs'[r].key \in DOMAIN store[Leader]
                     THEN store[Leader][reqs'[r].key].version ELSE 0) + 1
          /\ Answered(r) =>
                /\ reqs'[r].resp.status = 200
                /\ reqs'[r].resp.version = reqs'[r].version
                /\ reqs'[r].resp.required = quorum
                /\ reqs'[r].resp.confirmations = reqs'[r].confirmations
                /\ reqs'[r].resp.ok = (reqs'[r].resp.confirmations >= quorum)]_vars

\* the second write to a key is answered version 2 and ok with exactly
\* quorum confirmations
C8_Witness ==
    \E r \in 1..Len(reqs) :
        /\ reqs[r].status = "responded"
        /\ reqs[r].resp.version = 2
        /\ quorum >= 1
        /\ reqs[r].resp.confirmations = quorum
        /\ reqs[r].resp.ok

\* C9: the leader holds, for every write it accepted, an Entry of that key
\* with at least the write's version, and exactly the write's Entry while no
\* later write to the key was accepted: from the step that accepts it (when
\* no push has been sent) on, whatever becomes of the pushes and the response.
NoLaterWrite(r) == \A r2 \in 1..Len(reqs) : r2 > r => reqs[r2].key # reqs[r].key

C9_LeaderCommitKept ==
    \A r \in 1..Len(reqs) :
        /\ reqs[r].key \in DOMAIN store[Leader]
        /\ store[Leader][reqs[r].key].version >= reqs[r].version
        /\ NoLaterWrite(r) =>
              store[Leader][reqs[r].key] = Entry(reqs[r].value, reqs[r].version)

\* a write answered ok = false, no follower reached, is still on the leader
C9_Witness ==
    \E r \in 1..Len(reqs) :
        /\ reqs[r].status = "responded" /\ ~reqs[r].resp.ok
        /\ Len(reqs[r].target) = 2
        /\ \A i \in 1..2 : reqs[r].task[i] = "lost"
        /\ store[Leader][reqs[r].key] = Entry(reqs[r].value, reqs[r].version)
        /\ \A f \in Followers : store[f] = EmptyStore

\* C10: with reachable followers and fair scheduling, every push of a /set
\* answered ok = true reaches its follower, which then stores the write's
\* Entry or one of a higher version.
HasReached(r, i) ==
    /\ r <= Len(reqs) /\ i <= Len(reqs[r].target)
    /\ reqs[r].task[i] \in Reached
    /\ reqs[r].key \in DOMAIN store[reqs[r].target[i]]
    /\ LET e == store[reqs[r].target[i]][reqs[r].key]
       IN \/ e = Entry(reqs[r].value, reqs[r].version)
          \/ e.version > reqs[r].version

AnsweredOk(r) == r <= Len(reqs) /\ reqs[r].status = "responded" /\ reqs[r].resp.ok

C10_DetachedPushesArrive ==
    \A r \in 1..MaxWrites, i \in 1..2 : AnsweredOk(r) ~> HasReached(r, i)

\* a push not yet sent when its /set was answered ok = true has been applied
C10_Witness ==
    \E r \in 1..Len(reqs) : \E i \in reqs[r].unsent :
        /\ reqs[r].resp.ok /\ quorum >= 1
        /\ reqs[r].task[i] \in Reached
        /\ store[reqs[r].target[i]][reqs[r].key] = Entry(reqs[r].value, reqs[r].version)

\* C11: every /set the leader accepted is answered, whatever the followers
\* do or fail to do; an answer given after the timeout fired carries the
\* confirmations counted by then, none of them from a task that had not
\* returned True, and ok = false when they are fewer than quorum.
IsAnswered(r) == r <= Len(reqs) /\ reqs[r].status = "responded"

IsAccepted(r) == r <= Len(reqs)

C11_TimeoutAnswers ==
    /\ \A r \in 1..MaxWrites : IsAccepted(r) ~> IsAnswered(r)
    /\ [][\A r \in 1..MaxWrites :
              Answered(r) /\ reqs'[r].timedOut =>
                  /\ reqs'[r].resp.confirmations = reqs'[r].confirmations
                  /\ reqs'[r].resp.confirmations <= OkCount(reqs[r])
                  /\ reqs'[r].resp.confirmations < quorum => ~reqs'[r].resp.ok]_vars

\* answered after the timeout with one confirmation of the two required,
\* the other follower never having been heard of
C11_Witness ==
    \E r \in 1..Len(reqs) :
        /\ reqs[r].status = "responded" /\ reqs[r].timedOut
        /\ quorum = 2 /\ reqs[r].resp.confirmations = 1 /\ ~reqs[r].resp.ok
        /\ \E i \in 1..2 : reqs[r].task[i] = "pending"

\* C12: with quorum <= 0 the leader answers a /set ok = true in the step
\* that accepts it, before any push task has finished, however many
\* followers are configured: it never has a /set waiting.
C12_ZeroQuorumImmediate ==
    quorum <= 0 =>
        \A r \in 1..Len(reqs) :
            reqs[r].status = "responded" /\ reqs[r].resp.ok

\* C13: with no follower configured (no push task), every /set the leader
\* accepted is answered in the step that accepts it, with confirmations = 0,
\* required = quorum, the version assigned, and ok = true exactly when
\* quorum <= 0.
C13_NoFollowers ==
    Targets = <<>> =>
        \A r \in 1..Len(reqs) :
            /\ reqs[r].status = "responded"
            /\ reqs[r].resp.status = 200
            /\ reqs[r].resp.confirmations = 0
            /\ reqs[r].resp.required = quorum
            /\ reqs[r].resp.version = reqs[r].version
            /\ reqs[r].resp.ok = (quorum <= 0)

\* quorum = 0, no follower: {ok: true, confirmations: 0, required: 0,
\* version: 1} on a fresh key, and the same with version 2 on the next write
C13_Witness ==
    /\ followers = <<>> /\ quorum = 0
    /\ Len(reqs) = 2 /\ reqs[2].key = reqs[1].key
    /\ reqs[1].resp = [status |-> 200, ok |-> TRUE, confirmations |-> 0,
                       required |-> 0, version |-> 1]
    /\ reqs[2].resp = [status |-> 200, ok |-> TRUE, confirmations |-> 0,
                       required |-> 0, version |-> 2]

\* C14: from the moment a /set is answered ok = true with quorum >= 1, at
\* least quorum followers store for its key a version not below the one
\* returned, and a follower that stores exactly that version stores the
\* value written.  (The configured endpoints are pairwise distinct.)
Holds(f, r) ==
    /\ reqs[r].key \in DOMAIN store[f]
    /\ store[f][reqs[r].key].version >= reqs[r].resp.version
    /\ store[f][reqs[r].key].version = reqs[r].resp.version
          => store[f][reqs[r].key].value = reqs[r].value

C14_DurableAtAck ==
    \A r \in 1..Len(reqs) :
        reqs[r].status = "responded" /\ reqs[r].resp.ok /\ quorum >= 1 =>
            Cardinality({f \in Followers : Holds(f, r)}) >= quorum

\* quorum = number of followers = 2: the second write to a key is answered
\* ok = true and both followers return its value and version
C14_Witness ==
    \E r \in 1..Len(reqs) :
        /\ quorum = 2 /\ Len(Targets) = 2
        /\ reqs[r].status = "responded" /\ reqs[r].resp.ok
        /\ reqs[r].resp.version = 2
        /\ \A f \in Followers :
              store[f][reqs[r].key] = Entry(reqs[r].value, reqs[r].resp.version)

\* C15: a /replicate handled by the leader changes no store, and every
\* Entry the leader holds is the Entry of a /set it accepted.
FromOwnSet(k) ==
    \E r \in 1..Len(reqs) :
        reqs[r].key = k /\ store[Leader][k] = Entry(reqs[r].value, reqs[r].version)

C15_LeaderIgnoresReplicate ==
    /\ \A k \in DOMAIN store[Leader] : FromOwnSet(k)
    /\ (last.req.op = "replicate" /\ ROLE(last.node) = "leader")
          => last.resp.applied = FALSE

\* C16: a /replicate is applied exactly when its version is strictly greater
\* than the stored one, an absent Entry counting as version 0: an update of
\* version 0 or less is answered stale and leaves the key as it was.
C16_AbsentIsVersionZero ==
    /\ [][(last'.seq # last.seq /\ last'.req.op = "replicate") =>
             LET n == last'.node
                 k == last'.req.key
                 ver == last'.req.version
                 applies == ver > CurrentVersion(store[n], k)
             IN /\ last'.resp.applied = applies
                /\ ~applies => store' = store /\ last'.resp = Stale
                /\ applies => store'[n][k] = Entry(last'.req.value, ver)]_vars

\* C17: whatever the interleaving of the /set handlers in progress, no two
\* accepted writes to one key have the same version (each saw a different
\* current version), so no two pushes carry the same key and version with
\* different values.
Pushes ==
    {[key |-> reqs[r].key, value |-> reqs[r].value, version |-> reqs[r].version,
      to |-> reqs[r].target[i]] : r \in 1..Len(reqs), i \in 1..Len(Targets)}

C17_AtomicVersionAssignment ==
    /\ \A r1, r2 \in 1..Len(reqs) :
          r1 # r2 /\ reqs[r1].key = reqs[r2].key => reqs[r1].version # reqs[r2].version
    /\ \A p1, p2 \in Pushes :
          p1.key = p2.key /\ p1.version = p2.version => p1.value = p2.value

\* two /set handlers for one key in progress at once, with different values
\* and versions 1 and 2
C17_Witness ==
    /\ Len(reqs) = 2 /\ Waiting = {1, 2}
    /\ reqs[1].key = reqs[2].key /\ reqs[1].value # reqs[2].value
    /\ reqs[1].version = 1 /\ reqs[2].version = 2
    /\ Len(Targets) = 2

\* C18: once every push of every write has reached its follower, the leader
\* and every configured follower hold, for each key written, the highest
\* version assigned to it with the leader's value, also when the writes
\* were handled concurrently and their pushes arrived in any order.
AssignedTo(k) == {reqs[r].version : r \in WritesTo(k)}

C18_ConcurrentWritesConverge ==
    Settled =>
        \A k \in DOMAIN store[Leader] : \A n \in Cluster :
            /\ k \in DOMAIN store[n]
            /\ store[n][k].version = Max(AssignedTo(k))
            /\ store[n][k] = store[Leader][k]

\* two writes of different values to one key whose handlers are both still
\* waiting while all four pushes have reached the two followers
C18_Witness ==
    /\ Settled
    /\ Len(reqs) = 2 /\ Waiting = {1, 2}
    /\ reqs[1].key = reqs[2].key /\ reqs[1].value # reqs[2].value
    /\ Len(Targets) = 2
    /\ \A f \in Followers : store[f][reqs[2].key] = Entry(reqs[2].value, 2)

\* C19: a follower that is behind the leader catches up through the
\* replication mechanism without a further client write: when nothing of the
\* mechanism is left to run (every /set answered, every push task finished),
\* every configured follower holds the leader's Entry of every key.
Quiescent ==
    \A r \in 1..Len(reqs) :
        /\ reqs[r].status = "responded"
        /\ \A i \in 1..Len(reqs[r].target) : reqs[r].task[i] \notin Unfinished

C19_EventualCatchUp ==
    Quiescent =>
        \A i \in 1..Len(Targets) : \A k \in DOMAIN store[Leader] :
            /\ k \in DOMAIN store[Targets[i]]
            /\ store[Targets[i]][k] = store[Leader][k]

\* C20: a /set one of whose pushes failed is answered all the same, with the
\* full outcome; no failed push is among its confirmations; and when the
\* timeout did not fire, ok says exactly whether the pushes that succeeded
\* are quorum or more.
HasFailed(q) == \E i \in 1..Len(q.target) : q.task[i] \in {"lost", "late"}

C20_FailedPushNotFatal ==
    [][\A r \in 1..MaxWrites :
          Answered(r) /\ HasFailed(reqs'[r]) =>
              /\ reqs'[r].resp = [status |-> 200,
                                  ok |-> reqs'[r].confirmations >= quorum,
                                  confirmations |-> reqs'[r].confirmations,
                                  required |-> quorum,
                                  version |-> reqs'[r].version]
              /\ reqs'[r].confirmations <= OkCount(reqs'[r])
              /\ ~reqs'[r].timedOut =>
                    reqs'[r].resp.ok = (OkCount(reqs'[r]) >= quorum)]_vars

\* the failure of one push was counted first, the success of the other
\* then made quorum: ok = true with one confirmation
C20_Witness ==
    \E r \in 1..Len(reqs) :
        /\ reqs[r].status = "responded" /\ reqs[r].resp.ok
        /\ quorum = 1 /\ reqs[r].iter = 2 /\ ~reqs[r].timedOut
        /\ reqs[r].resp.confirmations = 1
        /\ \E i \in 1..2 : reqs[r].task[i] = "late"

\* C21: while a /set waits on the leader for confirmations, GET /get of any
\* key and GET /dump can be served there at once; a read changes no store,
\* moves no /set forward, and answers from the store as it is.
IsRead == last'.seq # last.seq /\ last'.req.op \in {"get", "dump"}

Written == {<<reqs[r].key, Entry(reqs[r].value, reqs[r].version)>> : r \in 1..Len(reqs)}

C22_CoherentEntries ==
    /\ \A n \in Nodes : \A k \in DOMAIN store[n] : <<k, store[n][k]>> \in Written
    /\ (last.req.op = "get" /\ last.resp.status = 200) =>
          <<last.resp.key, Entry(last.resp.value, last.resp.version)>> \in Written
    /\ last.req.op = "dump" =>
          \A k \in DOMAIN last.resp.store : <<k, last.resp.store[k]>> \in Written

\* a dump of the leader taken while two writes of different values to one
\* key were both waiting shows the second write's value with version 2
C22_Witness ==
    /\ last.req.op = "dump" /\ last.node = Leader
    /\ Len(reqs) = 2 /\ Waiting = {1, 2}
    /\ reqs[1].key = reqs[2].key /\ reqs[1].value # reqs[2].value
    /\ last.resp.store[reqs[2].key] = Entry(reqs[2].value, 2)

\* C26: a push whose follower answered 200 with applied = false (the update
\* was stale there) is queued as a confirmation like any other, so ok = true
\* does not say that quorum followers applied the write.
IsReplyTo(r, i) ==
    /\ last.req.op = "replicate"
    /\ last.node = reqs[r].target[i]
    /\ last.req = ReplicateReq(reqs[r].key, reqs[r].value, reqs[r].version)

C26_StaleReplyConfirms ==
    [][\A r \in 1..Len(reqs) : \A i \in 1..Len(reqs[r].target) :
          (/\ IsReplyTo(r, i) /\ last.resp = Stale
           /\ reqs[r].task[i] = "delivered" /\ reqs'[r].task[i] = "ok"
           /\ r \in Waiting /\ ~reqs[r].timedOut)
              => reqs'[r].doneQ = Append(reqs[r].doneQ, TRUE)]_vars

\* quorum 1 and one follower: the first write is answered ok = true with one
\* confirmation, which is the follower's rejection of its update as stale
C26_Witness ==
    /\ quorum = 1 /\ Len(reqs) = 2
    /\ IsReplyTo(1, 1) /\ last.resp = Stale
    /\ reqs[1].status = "responded" /\ reqs[1].resp.ok
    /\ reqs[1].resp.confirmations = 1
    /\ store[reqs[1].target[1]][reqs[1].key].version = 2

\* C23: confirmations are counted as the pushes complete, whichever
\* followers they are: while a /set waits and its timeout has not fired,
\* every push that returned True is counted or queued to be, whatever the
\* state of the pushes listed before it; and the /set stops waiting as soon
\* as quorum confirmations are counted.
TrueIn(q) == Cardinality({j \in 1..Len(q.doneQ) : q.doneQ[j]})

C23_CompletionOrder ==
    \A r \in Waiting :
        /\ quorum >= 1 => reqs[r].confirmations < quorum
        /\ ~reqs[r].timedOut =>
              reqs[r].confirmations + TrueIn(reqs[r]) = OkCount(reqs[r])

\* quorum 1, answered ok = true on the confirmation of the second follower
\* of the list while the push to the first has not left
C23_Witness ==
    \E r \in 1..Len(reqs) :
        /\ reqs[r].status = "responded" /\ reqs[r].resp.ok
        /\ quorum = 1 /\ Len(reqs[r].target) = 2
        /\ reqs[r].iter = 1 /\ ~reqs[r].timedOut
        /\ reqs[r].task[1] = "pending" /\ reqs[r].task[2] = "ok"

\* C24: the step that answers a /set leaves its push tasks as they are, also
\* after a timeout; and once a /set was answered ok = false, no node that
\* holds its Entry, or a later one of the key, goes back below it.
KeepsWrite(n, r) ==
    (/\ reqs[r].key \in DOMAIN store[n]
     /\ store[n][reqs[r].key].version >= reqs[r].version)
        => /\ reqs[r].key \in DOMAIN store'[n]
           /\ store'[n][reqs[r].key].version >= reqs[r].version
           /\ store[n][reqs[r].key] = Entry(reqs[r].value, reqs[r].version)
                 => \/ store'[n][reqs[r].key] = store[n][reqs[r].key]
                    \/ store'[n][reqs[r].key].version > reqs[r].version

C24_TimedOutPushNotCancelled ==
    [][\A r \in 1..Len(reqs) :
          /\ Answered(r) => reqs'[r].task = reqs[r].task
          /\ (reqs[r].status = "responded" /\ ~reqs[r].resp.ok) =>
                \A n \in Nodes : KeepsWrite(n, r)]_vars

\* a /set answered ok = false after the timeout, one of whose pushes left
\* only afterwards: the leader and that follower hold its Entry
C24_Witness ==
    \E r \in 1..Len(reqs) : \E i \in reqs[r].unsent :
        /\ reqs[r].status = "responded" /\ ~reqs[r].resp.ok /\ reqs[r].timedOut
        /\ reqs[r].task[i] \in Reached
        /\ store[reqs[r].target[i]][reqs[r].key] = Entry(reqs[r].value, reqs[r].version)
        /\ store[Leader][reqs[r].key] = Entry(reqs[r].value, reqs[r].version)

\* C25: with /replicate coming from the leader's pushes only, every key a
\* follower holds is on the leader, with a version not above the leader's,
\* and the follower's Entry is the one the leader committed for that
\* version.
C25_FollowersNotAhead ==
    \A f \in Followers : \A k \in DOMAIN store[f] :
        /\ k \in DOMAIN store[Leader]
        /\ store[f][k].version <= store[Leader][k].version
        /\ \E r \in 1..Len(reqs) :
              /\ reqs[r].key = k
              /\ store[f][k] = Entry(reqs[r].value, reqs[r].version)

\* one follower holds version 1 of a key, the other and the leader version 2
C25_Witness ==
    \E k \in Keys :
        /\ k \in DOMAIN store["f1"] /\ k \in DOMAIN store["f2"]
        /\ store["f1"][k].version = 1 /\ store["f2"][k].version = 2
        /\ store[Leader][k] = store["f2"][k]
        /\ store["f1"][k].value # store["f2"][k].value

\* C27: a /set response reports between 0 and the number of push tasks
\* confirmations, and with quorum >= 1 never more than quorum: an ok = true
\* response reports exactly the required number.
C27_ConfirmationsBounded ==
    \A r \in 1..Len(reqs) :
        reqs[r].status = "responded" =>
            /\ reqs[r].resp.confirmations >= 0
            /\ reqs[r].resp.confirmations <= Len(Targets)
            /\ quorum >= 1 => reqs[r].resp.confirmations <= quorum
            /\ (quorum >= 1 /\ reqs[r].resp.ok) =>
                  reqs[r].resp.confirmations = reqs[r].resp.required

\* quorum 1: both followers confirmed, the response says confirmations = 1
C27_Witness ==
    \E r \in 1..Len(reqs) :
        /\ quorum = 1 /\ reqs[r].status = "responded" /\ reqs[r].resp.ok
        /\ OkCount(reqs[r]) = 2
        /\ reqs[r].resp.confirmations = 1

\* C28: with synchronization, whatever the interleaving of the worker
\* threads, the count of a key is the number of increment calls that have
\* returned for it, and those calls returned 1, 2, ..., N: no increment is
\* lost and no value is returned twice.
C28_SynchronizedCounter ==
    \A k \in Paths :
        /\ counts[k] = Len(returned[k])
        /\ \A j \in 1..Len(returned[k]) : returned[k][j] = j

\* three calls for one key, made by threads that ran side by side, have
\* returned 1, 2, 3 and the count is 3
C28_Witness ==
    \E k \in Paths :
        /\ returned[k] = <<1, 2, 3>> /\ counts[k] = 3
        /\ Busy = {}

\* C29: the naive increment is a read followed, unguarded, by the write of
\* the value read plus one: no thread ever waits, a write stores and returns
\* its own read plus one whatever the count has become, and the count never
\* exceeds the number of increments performed (it can stay below it).
C29_NaiveCounterUnguarded ==
    /\ [](\A w \in Workers : workers[w].pc = "enter" => ENABLED Enter(w))
    /\ [](\A k \in Paths : counts[k] <= Len(returned[k]))
    /\ [][\A w \in Workers :
              (workers[w].pc = "write" /\ workers'[w].pc = "idle") =>
                  LET k == workers[w].key
                  IN /\ counts'[k] = workers[w].current + 1
                     /\ returned'[k] = Append(returned[k], workers[w].current + 1)]_vars

\* the lost update: two increments of one key both returned 1 and the count
\* is 1
C29_Witness ==
    \E k \in Paths :
        /\ Busy = {}
        /\ returned[k] = <<1, 1>>
        /\ counts[k] = 1

\* C30: with limit >= 1, for each address and each window of `window` ticks
\* at most limit of the requests read in it are allowed; a refused request
\* is not recorded; a request of one address leaves the timestamps of the
\* others alone; and with limit <= 0 no request is refused.
InWindow(t) == {u \in 0..MaxClock : t - window < u /\ u <= t}

IsDecision(w) == workers[w].pc = "lock" /\ workers'[w].pc = "idle"

C30_RateLimit ==
    /\ [](limit >= 1 =>
             \A ip \in IPs, t \in 0..MaxClock :
                 SumOver(admitted[ip], InWindow(t)) <= limit)
    /\ [](limit <= 0 => \A ip \in IPs : denied[ip] = 0 /\ requests[ip] = <<>>)
    /\ [][\A w \in Workers : IsDecision(w) =>
              LET ip == workers[w].ip
              IN /\ \A o \in IPs \ {ip} :
                       /\ requests'[o] = requests[o]
                       /\ admitted'[o] = admitted[o] /\ denied'[o] = denied[o]
                 /\ denied'[ip] # denied[ip] =>
                       Len(requests'[ip]) <= Len(requests[ip])]_vars

====
